---- MODULE Spec2Model ----
(***************************************************************************)
(* Model of the iot-printer backend: the add_task endpoint (backend.py),   *)
(* the APScheduler job store it registers jobs in, and the two scheduled   *)
(* handlers prepare_gdrive_download_task and print_file_task (db.py), each *)
(* running on its own SQLAlchemy session against the shared tasks table.   *)
(*                                                                         *)
(* Time is in seconds.  A handler is split at every access to shared state *)
(* (a query, a commit, a file-system call, the scheduler, an external      *)
(* call), so that the steps of concurrently running handlers interleave as *)
(* the scheduler's worker threads do.                                      *)
(***************************************************************************)
EXTENDS Integers, Sequences, FiniteSets, TLC

\* ------------------------------------------------------------- bounds
\* Task rows the table holds at most.
MaxTasks == 2
\* Files a run of the service stores at most, on the local disk and in Google
\* Drive together.
MaxStored == 2
\* Handler runs in progress at once (the worker threads of the scheduler's
\* executor that are busy, and direct calls).
MaxWorkers == 2
\* Direct calls of a handler.
MaxDirect == 3

\* ---------------------------------------------------------- constants
MAX_FILE_SIZE_MB == 5
MAX_FILE_SIZE_BYTES == MAX_FILE_SIZE_MB * 1024 * 1024
MIN_LEAD_SECONDS == 60
DOWNLOAD_LEAD_SECONDS == 600
IMMEDIATE_DELAY_SECONDS == 5
created_at_default == 0

\* StorageType.LOCAL and StorageType.GDRIVE (LOCAL is a reserved word)
LOCAL_ == "local"
GDRIVE_ == "gdrive"
StorageType == {LOCAL_, GDRIVE_}

PENDING == "pending"
SCHEDULED == "scheduled"
DOWNLOADING == "downloading"
PRINTING == "printing"
COMPLETED == "completed"
FAILED == "failed"
TaskStatus == {PENDING, SCHEDULED, DOWNLOADING, PRINTING, COMPLETED, FAILED}

\* None, and SQLAlchemy's marker for an attribute that is not loaded.
NULL == "<null>"
NO_VALUE == "<no value>"
NoTask == [status |-> NULL]

TaskIds == 1..MaxTasks

\* ------------------------------------------------------------- inputs
FileNames == {"doc.pdf"}
Emails == {"amy@example.com"}
ColorModes == {"bw", "sepia"}
Sizes == {MAX_FILE_SIZE_BYTES, MAX_FILE_SIZE_BYTES + 1}
\* Offsets of time_to_print_ts from the clock of the request: the longest lead
\* that is rejected, the longest for which the download is set five seconds
\* ahead, and the shortest for which it is set ten minutes before the print.
PrintOffsets == {MIN_LEAD_SECONDS, DOWNLOAD_LEAD_SECONDS, DOWNLOAD_LEAD_SECONDS + 1}
\* What datetime.fromtimestamp makes of time_to_print_ts: a datetime, or one of
\* the errors it raises for a value out of range.
TS_OK == "ok"
TS_VALUE_ERROR == "ValueError"
TS_OVERFLOW_ERROR == "OverflowError"
NoStamp == [parse |-> NULL, ts |-> 0]
Timestamps(clock) ==
    {[parse |-> TS_OK, ts |-> clock + d] : d \in PrintOffsets}
        \cup {[parse |-> k, ts |-> 0] : k \in {TS_VALUE_ERROR, TS_OVERFLOW_ERROR}}
PrinterNames == {"", "office"}
\* skip and limit of list_tasks.
Skips == {0, 1}
Limits == {1, 10}

DownloadErrors == {"Google Drive service not available for download.", "API Error"}

MSG_STILL_DOWNLOADING == "Print task ran while file was still in downloading state or download failed to update status."
MSG_NO_PRINTER == "Printer name not configured (passed as empty)."
MSG_GDRIVE_NOT_LOCAL == "GDrive file not found locally at expected path. Download may have failed or path is incorrect."
MSG_UNKNOWN_STORAGE == "Unknown storage type."
MSG_FILE_NOT_FOUND == "File not found for task."
MSG_UNKNOWN_PRINT_ERROR == "Unknown printing error"

VARIABLES
    now,               \* the wall clock, datetime.now(timezone.utc)
    tasks,             \* the tasks table: id -> row, NoTask where there is none
    jobs,              \* the scheduler's job store: pending jobs
    files,             \* paths that exist on the local disk
    gdrive,            \* ids of the objects held by Google Drive
    req,               \* the add_task request being served, or the last one
    dl,                \* per task id: the run of prepare_gdrive_download_task
    pr,                \* per task id: the run of print_file_task
    PRINTER_NAME,      \* os.getenv("PRINTER_NAME"), read once at import
    add_job_calls,     \* per task id: scheduler.add_job calls, in order
    remove_job_calls,  \* per task id: scheduler.remove_job calls, in order
    send_email_calls,  \* per task id: send_email calls, in order
    lp_calls,          \* per task id: how often the lp command was run
    direct             \* handler runs started by a direct call

vars == <<now, tasks, jobs, files, gdrive, req, dl, pr, PRINTER_NAME,
          add_job_calls, remove_job_calls, send_email_calls, lp_calls, direct>>

\* ------------------------------------------------------ names and paths
print_job_id(t) == <<"print_task", t>>
download_job_id(t) == <<"download_task", t>>

\* Variant of download_destination: the task id is left out of the path.
download_destination_without_id(t, filename) ==
    "uploads/gdrive_downloads/task_" \o filename

\* A stored file's name carries the clock of its request to the microsecond;
\* the number n stands for it, a new one per file.
temp_file_path(n, filename) == "uploads/temp_" \o ToString(n) \o "_" \o filename
final_local_path(n, filename) == "uploads/local_" \o ToString(n) \o "_" \o filename
download_destination(t, filename) ==
    "uploads/gdrive_downloads/task_" \o ToString(t) \o "_" \o filename
gdrive_file_id(n) == "gdrive_id_" \o ToString(n)

\* The paths under uploads/ that are named temp_* and local_*.
TempPaths == {temp_file_path(n, filename) : n \in 1..MaxStored, filename \in FileNames}
LocalPaths == {final_local_path(n, filename) : n \in 1..MaxStored, filename \in FileNames}

\* What the service has stored: the files under uploads/local_* and the
\* objects in Google Drive.
Stored == gdrive \cup (files \cap LocalPaths)

Exists(t) == tasks[t] # NoTask
TaskCount == Cardinality({t \in TaskIds : Exists(t)})

\* ------------------------------------------------------- the scheduler
\* scheduler.add_job(..., id=id, run_date=run_date, replace_existing=True)
add_job(store, id, run_date) ==
    {j \in store : j.id # id} \cup {[id |-> id, run_date |-> run_date]}

\* Variant of remove_job: the jobs of the same kind go, whatever their task.
remove_job_of_any_task(store, id) == {j \in store : j.id[1] # id[1]}

\* scheduler.remove_job(id); a missing job raises JobLookupError, which the
\* caller catches, and leaves the store as it is.
remove_job(store, id) == {j \in store : j.id # id}

Pending(id) == {j \in jobs : j.id = id}

\* ------------------------------------------------------------ add_task
IdleReq == [pc |-> "idle"]

\* The locals of a request are gone once it has returned: the first step of
\* anything else finds no trace of it.
Forget(r) == IF r.pc \in {"returned", "listed"} THEN IdleReq ELSE r

\* No storage for the file: it is large and Google Drive is not available.
UNAVAILABLE == "unavailable"

\* Variants of placement: the threshold counted as large, and a large file
\* kept on the local disk when Google Drive is not available.
placement_threshold_is_large(size, available) ==
    IF size >= MAX_FILE_SIZE_BYTES
    THEN (IF available THEN GDRIVE_ ELSE UNAVAILABLE)
    ELSE LOCAL_

placement_local_fallback(size, available) ==
    IF size > MAX_FILE_SIZE_BYTES /\ available THEN GDRIVE_ ELSE LOCAL_

\* Lines 97-119: where a file of this size goes.
placement(size, available) ==
    IF size > MAX_FILE_SIZE_BYTES
    THEN (IF available THEN GDRIVE_ ELSE UNAVAILABLE)
    ELSE LOCAL_

\* Variant of too_near: a print time exactly one minute ahead passes.
too_near_strict(print_datetime, clock) == print_datetime < clock + MIN_LEAD_SECONDS

\* Line 128: the print time is not far enough ahead.
too_near(print_datetime, clock) == print_datetime <= clock + MIN_LEAD_SECONDS

\* Variant of os_remove: the file stays.
os_remove_nothing(disk, path) == disk

\* Variant of os_path_exists: every path is taken to be there.
os_path_exists_always(disk, path) == TRUE

\* os.path.exists, os.remove and shutil.move on the disk.
os_path_exists(disk, path) == path \in disk
os_remove(disk, path) == disk \ {path}
shutil_move(disk, src, dst) == (disk \ {src}) \cup {dst}

\* Variant of download_time: a download time equal to the clock is kept.
download_time_at_clock(print_datetime, clock) ==
    IF print_datetime - DOWNLOAD_LEAD_SECONDS < clock
    THEN clock + IMMEDIATE_DELAY_SECONDS
    ELSE print_datetime - DOWNLOAD_LEAD_SECONDS

\* Lines 149-153: when the download of a GDrive task is to run.  The clock is
\* read on lines 128, 151 and 153 of one request, within the same second.
download_time(print_datetime, clock) ==
    IF print_datetime - DOWNLOAD_LEAD_SECONDS <= clock
    THEN clock + IMMEDIATE_DELAY_SECONDS
    ELSE print_datetime - DOWNLOAD_LEAD_SECONDS

\* Variants of new_jobs: a download job whatever the storage type, and the
\* print job registered first.
new_jobs_always_download(t, storage_type, print_datetime, clock) ==
    <<[id |-> download_job_id(t), run_date |-> download_time(print_datetime, clock)],
      [id |-> print_job_id(t), run_date |-> print_datetime]>>

new_jobs_print_first(t, storage_type, print_datetime, clock) ==
    <<[id |-> print_job_id(t), run_date |-> print_datetime]>>
        \o (IF storage_type = GDRIVE_
            THEN <<[id |-> download_job_id(t), run_date |-> download_time(print_datetime, clock)]>>
            ELSE <<>>)

\* Lines 147-172: the scheduler.add_job calls for a new task, in order.
new_jobs(t, storage_type, print_datetime, clock) ==
    (IF storage_type = GDRIVE_
     THEN <<[id |-> download_job_id(t), run_date |-> download_time(print_datetime, clock)]>>
     ELSE <<>>)
        \o <<[id |-> print_job_id(t), run_date |-> print_datetime]>>

RECURSIVE add_jobs(_, _)
add_jobs(store, calls) ==
    IF calls = <<>> THEN store
    ELSE add_jobs(add_job(store, Head(calls).id, Head(calls).run_date), Tail(calls))

\* The whole endpoint, lines 79-183: validation, staging, storage placement,
\* the task row, the jobs, the response.  The request is served on the event
\* loop and holds no await, so requests do not interleave with each other; the
\* jobs it registers are due five seconds later at the earliest, so no handler
\* of the new task runs before it returns.
add_task_request(filename, size, stamp, color_mode, uploader_email, available, upload_ok) ==
    LET n == Cardinality(Stored) + 1
        ts == stamp.ts
        temp_file_path_ == temp_file_path(n, filename)
        storage_type_val == placement(size, available)
        uploaded == storage_type_val = GDRIVE_ /\ upload_ok
        file_identifier_val == IF storage_type_val = GDRIVE_ THEN gdrive_file_id(n)
                               ELSE final_local_path(n, filename)
        \* the disk after the staging of lines 84-90
        staged == files \cup {temp_file_path_}
        \* the disk after the placement of lines 99-119
        placed == IF storage_type_val = GDRIVE_ THEN os_remove(staged, temp_file_path_)
                  ELSE shutil_move(staged, temp_file_path_, file_identifier_val)
        \* the disk after the removal of lines 124-125 and 129-130
        removed == IF storage_type_val = LOCAL_ THEN os_remove(placed, file_identifier_val)
                   ELSE placed
        new_id == TaskCount + 1
        \* What the request has read of its input by the time it ends: the
        \* form fields checked on lines 79-82 only, then the size and the
        \* availability of Google Drive (lines 92-100), then the print time.
        validating == [file_size |-> -1, gdrive_service_available |-> FALSE, stamp |-> NoStamp]
        placing == [file_size |-> size, gdrive_service_available |-> available, stamp |-> NoStamp]
        timing == [file_size |-> size, gdrive_service_available |-> available, stamp |-> stamp]
        Rejected(code, detail, form, up) ==
            [pc |-> "returned", status_code |-> code, detail |-> detail, form |-> form,
             clock |-> now, uploaded |-> up, task_id |-> 0, storage |-> NULL, status |-> NULL]
        calls == new_jobs(new_id, storage_type_val, ts, now)
    IN
    /\ Cardinality(Stored) < MaxStored
    /\ UNCHANGED <<now, dl, pr, PRINTER_NAME, remove_job_calls,
                   send_email_calls, lp_calls, direct>>
    /\ IF color_mode \notin {"color", "bw"}
       THEN /\ req' = Rejected(400, "Invalid color_mode. Must be 'color' or 'bw'.", validating, FALSE)
            /\ UNCHANGED <<tasks, files, gdrive, jobs, add_job_calls>>
       ELSE IF uploader_email = ""
       THEN /\ req' = Rejected(400, "uploader_email is required.", validating, FALSE)
            /\ UNCHANGED <<tasks, files, gdrive, jobs, add_job_calls>>
       ELSE IF storage_type_val = UNAVAILABLE
       THEN /\ req' = Rejected(500, "File is large, but Google Drive is not configured/available for upload.", placing, FALSE)
            /\ files' = os_remove(staged, temp_file_path_)
            /\ UNCHANGED <<tasks, gdrive, jobs, add_job_calls>>
       ELSE IF storage_type_val = GDRIVE_ /\ ~upload_ok
       THEN /\ req' = Rejected(500, "Google Drive upload failed", placing, FALSE)
            /\ files' = os_remove(staged, temp_file_path_)
            /\ UNCHANGED <<tasks, gdrive, jobs, add_job_calls>>
       ELSE IF stamp.parse = TS_OVERFLOW_ERROR
       THEN \* OverflowError is not caught: the placed file stays
            /\ req' = Rejected(500, "Internal Server Error", timing, uploaded)
            /\ files' = placed
            /\ gdrive' = IF uploaded THEN gdrive \cup {file_identifier_val} ELSE gdrive
            /\ UNCHANGED <<tasks, jobs, add_job_calls>>
       ELSE IF stamp.parse = TS_VALUE_ERROR
       THEN /\ req' = Rejected(400, "Invalid time_to_print_ts. Must be a valid Unix timestamp.", timing, uploaded)
            /\ files' = removed
            /\ gdrive' = IF uploaded THEN gdrive \cup {file_identifier_val} ELSE gdrive
            /\ UNCHANGED <<tasks, jobs, add_job_calls>>
       ELSE IF too_near(ts, now)
       THEN /\ req' = Rejected(400, "time_to_print must be in the future (at least 1 minute ahead).", timing, uploaded)
            /\ files' = removed
            /\ gdrive' = IF uploaded THEN gdrive \cup {file_identifier_val} ELSE gdrive
            /\ UNCHANGED <<tasks, jobs, add_job_calls>>
       ELSE /\ TaskCount < MaxTasks
            /\ files' = placed
            /\ gdrive' = IF uploaded THEN gdrive \cup {file_identifier_val} ELSE gdrive
            /\ tasks' = [tasks EXCEPT ![new_id] =
                    [original_filename |-> filename,
                     uploader_email |-> uploader_email,
                     storage_type |-> storage_type_val,
                     file_identifier |-> file_identifier_val,
                     gdrive_download_path |-> NULL,
                     time_to_print |-> ts,
                     status |-> SCHEDULED,
                     created_at |-> created_at_default,
                     error_message |-> NULL]]
            /\ jobs' = add_jobs(jobs, calls)
            /\ add_job_calls' = [add_job_calls EXCEPT ![new_id] = @ \o calls]
            /\ req' = [pc |-> "returned", status_code |-> 200,
                       detail |-> "Task added successfully", form |-> timing,
                       clock |-> now, uploaded |-> uploaded, task_id |-> new_id,
                       storage |-> storage_type_val, status |-> SCHEDULED]

\* A request draws its form and what it meets; what it never reads (after an
\* earlier rejection) is left at a default.
add_task ==
    \E color_mode \in ColorModes :
       \E uploader_email \in IF color_mode \in {"color", "bw"} THEN Emails \cup {""} ELSE {""} :
       \E filename \in FileNames :
       \E size \in IF uploader_email # "" THEN Sizes ELSE {0} :
       \E available \in IF uploader_email # "" THEN BOOLEAN ELSE {FALSE} :
       \E upload_ok \in IF placement(size, available) = GDRIVE_ THEN BOOLEAN ELSE {FALSE} :
       \E stamp \in IF uploader_email # "" /\ (placement(size, available) = LOCAL_ \/ upload_ok)
                    THEN Timestamps(now) ELSE {NoStamp} :
            add_task_request(filename, size, stamp, color_mode, uploader_email, available, upload_ok)

\* ---------------------------------------------------------- list_tasks
\* The rows in an order ORDER BY created_at DESC allows: rows with the same
\* created_at come in whatever order the database takes them.
ordered_by_created_at_desc ==
    LET ids == {t \in TaskIds : Exists(t)}
        n == Cardinality(ids)
    IN {order \in [1..n -> ids] :
            /\ \A i, j \in 1..n : i # j => order[i] # order[j]
            /\ \A i, j \in 1..n :
                   i < j => tasks[order[i]].created_at >= tasks[order[j]].created_at}

\* .offset(skip).limit(limit)
offset_limit(order, skip, limit) ==
    SubSeq(order, skip + 1, IF skip + limit < Len(order) THEN skip + limit ELSE Len(order))

\* Lines 193-197: GET /tasks/.
list_tasks ==
    /\ \E skip \in Skips, limit \in Limits, order \in ordered_by_created_at_desc :
          req' = [pc |-> "listed", skip |-> skip, limit |-> limit,
                  page |-> offset_limit(order, skip, limit)]
    /\ UNCHANGED <<now, tasks, jobs, files, gdrive, dl, pr, PRINTER_NAME,
                   add_job_calls, remove_job_calls, send_email_calls, lp_calls, direct>>

\* --------------------------------------------------------------- clock
\* Time passes: the clock reaches the run date of a pending job.
Tick ==
    /\ \E j \in jobs : j.run_date > now /\ now' = j.run_date
    /\ req' = Forget(req)
    /\ UNCHANGED <<tasks, jobs, files, gdrive, dl, pr, PRINTER_NAME,
                   add_job_calls, remove_job_calls, send_email_calls, lp_calls, direct>>

\* ------------------------------------------------- the ORM session
\* A handler holds one Session and one Task object loaded into it.  The object
\* keeps, per attribute, the value it loaded (what a flush compares with) and
\* its current value.  commit() writes the attributes whose current value
\* differs from the loaded one with UPDATE ... WHERE id = ?, whatever the row
\* holds by then, and expires the object; the next read of an attribute loads
\* the expired attributes from the row again.
Attrs == {"status", "gdrive_download_path", "error_message"}
Expired == [a \in Attrs |-> NO_VALUE]
Detached == [loaded |-> Expired, cur |-> Expired]

\* db.query(Task).filter(Task.id == t).first(), and the load of an expired
\* object: attributes assigned since it expired keep the assigned value.
Load(obj, row) ==
    [loaded |-> [a \in Attrs |-> IF obj.cur[a] = NO_VALUE THEN row[a] ELSE obj.loaded[a]],
     cur    |-> [a \in Attrs |-> IF obj.cur[a] = NO_VALUE THEN row[a] ELSE obj.cur[a]]]

Dirty(obj) == {a \in Attrs : obj.cur[a] # NO_VALUE /\ obj.cur[a] # obj.loaded[a]}

\* Variant of Flush: the commit writes nothing.
Flush_nothing(row, obj) == row

\* The row after the flush of db.commit().
Flush(row, obj) ==
    [f \in DOMAIN row |-> IF f \in Dirty(obj) THEN obj.cur[f] ELSE row[f]]

Commit(t, obj) == tasks' = [tasks EXCEPT ![t] = Flush(@, obj)]

\* ------------------------------------------------------ handler runs
\* status_at_query is what the run's query found in the row's status; sent is
\* what send_email returned, and job_found whether remove_job found the job,
\* both FALSE until the call has returned; process is the result of the lp
\* command, NoProcess until it has ended.
NoProcess == [raised |-> NULL, returncode |-> -1, stderr |-> "", stdout |-> ""]
IdleDownload == [pc |-> "idle", task |-> Detached, e |-> NULL, status_at_query |-> NULL,
                 sent |-> FALSE, job_found |-> FALSE]
IdlePrint == [pc |-> "idle", task |-> Detached, file_to_print_path |-> NULL,
              is_gdrive_downloaded_file |-> FALSE, status_at_query |-> NULL,
              process |-> NoProcess]

\* Runs past their first statement.
Running ==
    Cardinality({t \in TaskIds : dl[t].pc \notin {"idle", "start"}})
        + Cardinality({t \in TaskIds : pr[t].pc \notin {"idle", "start"}})

\* The scheduler hands a due job to a worker thread; a date job is removed
\* from the store when it is handed over, and the run starts when a thread
\* is free.
Due(id) == {j \in Pending(id) : j.run_date <= now}

\* --------------------------------------- prepare_gdrive_download_task
fire_download(t) ==
    /\ dl[t].pc = "idle"
    /\ Due(download_job_id(t)) # {}
    /\ jobs' = jobs \ Pending(download_job_id(t))
    /\ dl' = [dl EXCEPT ![t].pc = "start"]
    /\ req' = Forget(req)
    /\ UNCHANGED <<now, tasks, files, gdrive, pr, PRINTER_NAME,
                   add_job_calls, remove_job_calls, send_email_calls, lp_calls, direct>>

\* Variant of download_skips: only a missing row ends the run.
download_skips_missing_only(row) == row = NoTask

\* Lines 68-81: the guards that end the run with nothing done.
download_skips(row) ==
    row = NoTask \/ row.status = FAILED \/ row.storage_type # GDRIVE_

\* Lines 65-84: the query, the guards, status = DOWNLOADING on the object.
download_query(t) ==
    /\ dl[t].pc = "start"
    /\ Running < MaxWorkers
    /\ IF download_skips(tasks[t])
       THEN dl' = [dl EXCEPT ![t] = IdleDownload]
       ELSE dl' = [dl EXCEPT ![t].pc = "commit_downloading",
                             ![t].status_at_query = tasks[t].status,
                             ![t].task = [Load(Detached, tasks[t]) EXCEPT !.cur.status = DOWNLOADING]]
    /\ req' = Forget(req)
    /\ UNCHANGED <<now, tasks, jobs, files, gdrive, pr, PRINTER_NAME,
                   add_job_calls, remove_job_calls, send_email_calls, lp_calls, direct>>

\* Line 85: db.commit().
download_commit_downloading(t) ==
    /\ dl[t].pc = "commit_downloading"
    /\ Commit(t, dl[t].task)
    /\ dl' = [dl EXCEPT ![t].pc = "refresh", ![t].task = Detached]
    /\ req' = Forget(req)
    /\ UNCHANGED <<now, jobs, files, gdrive, pr, PRINTER_NAME,
                   add_job_calls, remove_job_calls, send_email_calls, lp_calls, direct>>

\* Line 87: task.id and task.original_filename load the expired object.
download_refresh(t) ==
    /\ dl[t].pc = "refresh"
    /\ dl' = [dl EXCEPT ![t].pc = "download", ![t].task = Load(dl[t].task, tasks[t])]
    /\ req' = Forget(req)
    /\ UNCHANGED <<now, tasks, jobs, files, gdrive, pr, PRINTER_NAME,
                   add_job_calls, remove_job_calls, send_email_calls, lp_calls, direct>>

\* Variant of DownloadFailed: the error text is not put on the object.
DownloadFailed_without_message(run, e) ==
    [run EXCEPT !.pc = "send_email", !.e = e, !.task.cur.status = FAILED]

\* Variant of DownloadFailed: the destination is put on the object although
\* the download failed.
DownloadFailed_with_path(run, e) ==
    [run EXCEPT !.pc = "send_email", !.e = e,
                !.task.cur.status = FAILED, !.task.cur.error_message = e,
                !.task.cur.gdrive_download_path = "uploads/gdrive_downloads/partial"]

\* The except branch, lines 94-98: status and error_message on the object.
DownloadFailed(run, e) ==
    [run EXCEPT !.pc = "send_email", !.e = e,
                !.task.cur.status = FAILED, !.task.cur.error_message = e]

\* Line 90, helper.py 63-70: download_from_gdrive raises at once when the
\* service is not available, and opens the destination for writing otherwise.
download_begin(t) ==
    /\ dl[t].pc = "download"
    /\ \/ /\ dl' = [dl EXCEPT ![t] = DownloadFailed(@, "Google Drive service not available for download.")]
          /\ UNCHANGED files
       \/ /\ dl' = [dl EXCEPT ![t].pc = "downloading"]
          /\ files' = files \cup {download_destination(t, tasks[t].original_filename)}
    /\ req' = Forget(req)
    /\ UNCHANGED <<now, tasks, jobs, gdrive, pr, PRINTER_NAME,
                   add_job_calls, remove_job_calls, send_email_calls, lp_calls, direct>>

\* helper.py 71-83 and lines 91-92: the download ends; a failed one removes
\* the partial file and raises.
download_end(t) ==
    /\ dl[t].pc = "downloading"
    /\ LET dest == download_destination(t, tasks[t].original_filename)
       IN \/ /\ dl' = [dl EXCEPT ![t].pc = "commit",
                                 ![t].task.cur.gdrive_download_path = dest,
                                 ![t].task.cur.status = SCHEDULED]
             /\ UNCHANGED files
          \/ /\ dl' = [dl EXCEPT ![t] = DownloadFailed(@, "API Error")]
             /\ files' = files \ {dest}
    /\ req' = Forget(req)
    /\ UNCHANGED <<now, tasks, jobs, gdrive, pr, PRINTER_NAME,
                   add_job_calls, remove_job_calls, send_email_calls, lp_calls, direct>>

\* Lines 100-106, helper.py 85-104: send_email returns True, or False when
\* the mail cannot be sent; the handler does not read what it returns.
download_send_email(t) ==
    /\ dl[t].pc = "send_email"
    /\ send_email_calls' = [send_email_calls EXCEPT ![t] =
             Append(@, [to |-> tasks[t].uploader_email, e |-> dl[t].e])]
    /\ \E sent \in BOOLEAN : dl' = [dl EXCEPT ![t].pc = "remove_job", ![t].sent = sent]
    /\ req' = Forget(req)
    /\ UNCHANGED <<now, tasks, jobs, files, gdrive, pr, PRINTER_NAME,
                   add_job_calls, remove_job_calls, lp_calls, direct>>

\* Variant of after_remove_job: a job that is not found ends the run.
after_remove_job_found_only(run, found) ==
    IF found THEN [run EXCEPT !.pc = "commit", !.job_found = found] ELSE IdleDownload

\* Lines 109-113: remove_job has returned, or raised JobLookupError, which is
\* caught; the finally block is next.
after_remove_job(run, found) == [run EXCEPT !.pc = "commit", !.job_found = found]

\* Lines 108-112: scheduler_obj.remove_job(print_task_<id>).
download_remove_job(t) ==
    /\ dl[t].pc = "remove_job"
    /\ jobs' = remove_job(jobs, print_job_id(t))
    /\ remove_job_calls' = [remove_job_calls EXCEPT ![t] = Append(@, print_job_id(t))]
    /\ dl' = [dl EXCEPT ![t] = after_remove_job(@, Pending(print_job_id(t)) # {})]
    /\ req' = Forget(req)
    /\ UNCHANGED <<now, tasks, files, gdrive, pr, PRINTER_NAME,
                   add_job_calls, send_email_calls, lp_calls, direct>>

\* Lines 113-115: the finally block's db.commit() and db.close().
download_commit(t) ==
    /\ dl[t].pc = "commit"
    /\ Commit(t, dl[t].task)
    /\ dl' = [dl EXCEPT ![t] = IdleDownload]
    /\ req' = Forget(req)
    /\ UNCHANGED <<now, jobs, files, gdrive, pr, PRINTER_NAME,
                   add_job_calls, remove_job_calls, send_email_calls, lp_calls, direct>>

prepare_gdrive_download_task(t) ==
    \/ download_query(t)
    \/ download_commit_downloading(t)
    \/ download_refresh(t)
    \/ download_begin(t)
    \/ download_end(t)
    \/ download_send_email(t)
    \/ download_remove_job(t)
    \/ download_commit(t)

\* ---------------------------------------------------- print_file_task
\* What subprocess.run(["lp", ...]) can come to: exit status 0, a non-zero
\* exit status with text on stderr, on stdout or on neither, or an exception
\* (the lp command is missing).
LpOutcomes ==
    {[raised |-> NULL, returncode |-> 0, stderr |-> "", stdout |-> "request id is office-1"],
     [raised |-> NULL, returncode |-> 1, stderr |-> "lp: The printer or class does not exist.", stdout |-> ""],
     [raised |-> NULL, returncode |-> 1, stderr |-> "", stdout |-> "lp: not accepting requests"],
     [raised |-> NULL, returncode |-> 1, stderr |-> "", stdout |-> ""],
     [raised |-> "[Errno 2] No such file or directory: 'lp'", returncode |-> 0, stderr |-> "", stdout |-> ""]}

\* Variant of Or: the second operand is preferred.
Or_second(x, y) == IF y # "" THEN y ELSE x

\* Python's x or y on strings.
Or(x, y) == IF x # "" THEN x ELSE y

\* Variant of fire_print: the job stays in the store when it is fired, as a
\* job with a recurring trigger would.
fire_print_and_keep(t) ==
    /\ pr[t].pc = "idle"
    /\ Due(print_job_id(t)) # {}
    /\ pr' = [pr EXCEPT ![t].pc = "start"]
    /\ req' = Forget(req)
    /\ UNCHANGED <<now, tasks, jobs, files, gdrive, dl, PRINTER_NAME,
                   add_job_calls, remove_job_calls, send_email_calls, lp_calls, direct>>

\* Lines 165-172: the print job is a date job, handed to a worker thread once
\* it is due.
fire_print(t) ==
    /\ pr[t].pc = "idle"
    /\ Due(print_job_id(t)) # {}
    /\ jobs' = jobs \ Pending(print_job_id(t))
    /\ pr' = [pr EXCEPT ![t].pc = "start"]
    /\ req' = Forget(req)
    /\ UNCHANGED <<now, tasks, files, gdrive, dl, PRINTER_NAME,
                   add_job_calls, remove_job_calls, send_email_calls, lp_calls, direct>>

\* Variant of PrintFailed: the message is not put on the object.
PrintFailed_without_message(run, error_msg) ==
    [run EXCEPT !.pc = "commit_failed", !.task.cur.status = FAILED]

\* A guard that fails: status = FAILED and error_message on the object, to be
\* committed.
PrintFailed(run, error_msg) ==
    [run EXCEPT !.pc = "commit_failed",
                !.task.cur.status = FAILED, !.task.cur.error_message = error_msg]

\* Variant of print_skips: a task that is still downloading is passed over
\* like a failed one.
print_skips_downloading(row) == row = NoTask \/ row.status \in {FAILED, DOWNLOADING}

\* Lines 121-129: the guards that end the run with nothing done.
print_skips(row) == row = NoTask \/ row.status = FAILED

\* Variant of print_guard_error: the printer name is not looked at.
print_guard_error_any_printer(row, printer_name_val) ==
    IF row.status = DOWNLOADING THEN MSG_STILL_DOWNLOADING ELSE NULL

\* Lines 131-145: the guards that fail the task; NULL when both pass.
print_guard_error(row, printer_name_val) ==
    IF row.status = DOWNLOADING THEN MSG_STILL_DOWNLOADING
    ELSE IF printer_name_val = "" THEN MSG_NO_PRINTER
    ELSE NULL

\* Variant of staged_copy: the path is derived from the task, not read from
\* gdrive_download_path.
staged_copy_by_name(t, obj) == download_destination(t, tasks[t].original_filename)

\* Line 153: where the downloaded copy of a GDrive task is looked for.
staged_copy(t, obj) == obj.gdrive_download_path

\* Lines 118-152 and 164-172: the query and the guards that read the object.
print_query(t) ==
    /\ pr[t].pc = "start"
    /\ Running < MaxWorkers
    /\ IF print_skips(tasks[t])
       THEN pr' = [pr EXCEPT ![t] = IdlePrint]
       ELSE LET run == [pr[t] EXCEPT !.task = Load(Detached, tasks[t]),
                                     !.status_at_query = tasks[t].status]
                error_msg == print_guard_error(tasks[t], PRINTER_NAME)
            IN IF error_msg # NULL
               THEN pr' = [pr EXCEPT ![t] = PrintFailed(run, error_msg)]
               ELSE IF tasks[t].storage_type = GDRIVE_
               THEN IF staged_copy(t, run.task.cur) = NULL
                    THEN pr' = [pr EXCEPT ![t] = PrintFailed(run, MSG_GDRIVE_NOT_LOCAL)]
                    ELSE pr' = [pr EXCEPT ![t] = [run EXCEPT !.pc = "resolve"]]
               ELSE IF tasks[t].storage_type = LOCAL_
               THEN pr' = [pr EXCEPT ![t] = [run EXCEPT !.pc = "exists",
                                   !.file_to_print_path = tasks[t].file_identifier]]
               ELSE pr' = [pr EXCEPT ![t] = PrintFailed(run, MSG_UNKNOWN_STORAGE)]
    /\ req' = Forget(req)
    /\ UNCHANGED <<now, tasks, jobs, files, gdrive, dl, PRINTER_NAME,
                   add_job_calls, remove_job_calls, send_email_calls, lp_calls, direct>>

\* Lines 153-163: os.path.exists(task.gdrive_download_path).
print_resolve(t) ==
    /\ pr[t].pc = "resolve"
    /\ LET path == staged_copy(t, pr[t].task.cur)
       IN IF os_path_exists(files, path)
          THEN pr' = [pr EXCEPT ![t].pc = "exists", ![t].file_to_print_path = path,
                                ![t].is_gdrive_downloaded_file = TRUE]
          ELSE pr' = [pr EXCEPT ![t] = PrintFailed(@, MSG_GDRIVE_NOT_LOCAL)]
    /\ req' = Forget(req)
    /\ UNCHANGED <<now, tasks, jobs, files, gdrive, dl, PRINTER_NAME,
                   add_job_calls, remove_job_calls, send_email_calls, lp_calls, direct>>

\* Lines 174-183: os.path.exists(file_to_print_path), status = PRINTING.
print_exists(t) ==
    /\ pr[t].pc = "exists"
    /\ IF os_path_exists(files, pr[t].file_to_print_path)
       THEN pr' = [pr EXCEPT ![t].pc = "commit_printing", ![t].task.cur.status = PRINTING]
       ELSE pr' = [pr EXCEPT ![t] = PrintFailed(@, MSG_FILE_NOT_FOUND)]
    /\ req' = Forget(req)
    /\ UNCHANGED <<now, tasks, jobs, files, gdrive, dl, PRINTER_NAME,
                   add_job_calls, remove_job_calls, send_email_calls, lp_calls, direct>>

\* Variant of print_commit_failed: the uploader is sent a mail about the
\* failure, as the download handler does.
print_commit_failed_and_notify(t) ==
    /\ pr[t].pc = "commit_failed"
    /\ Commit(t, pr[t].task)
    /\ send_email_calls' = [send_email_calls EXCEPT ![t] =
             Append(@, [to |-> tasks[t].uploader_email, e |-> pr[t].task.cur.error_message])]
    /\ pr' = [pr EXCEPT ![t] = IdlePrint]
    /\ req' = Forget(req)
    /\ UNCHANGED <<now, jobs, files, gdrive, dl, PRINTER_NAME,
                   add_job_calls, remove_job_calls, lp_calls, direct>>

\* The db.commit() and db.close() of a failed guard: lines 135-137, 143-145,
\* 161-163, 170-172, 179-181.
print_commit_failed(t) ==
    /\ pr[t].pc = "commit_failed"
    /\ Commit(t, pr[t].task)
    /\ pr' = [pr EXCEPT ![t] = IdlePrint]
    /\ req' = Forget(req)
    /\ UNCHANGED <<now, jobs, files, gdrive, dl, PRINTER_NAME,
                   add_job_calls, remove_job_calls, send_email_calls, lp_calls, direct>>

\* Line 184: db.commit() of status = PRINTING.
print_commit_printing(t) ==
    /\ pr[t].pc = "commit_printing"
    /\ Commit(t, pr[t].task)
    /\ pr' = [pr EXCEPT ![t].pc = "run_lp", ![t].task = Detached]
    /\ req' = Forget(req)
    /\ UNCHANGED <<now, jobs, files, gdrive, dl, PRINTER_NAME,
                   add_job_calls, remove_job_calls, send_email_calls, lp_calls, direct>>

\* Lines 187-199: task.page_size loads the expired object; the lp command is
\* started.
print_run_lp(t) ==
    /\ pr[t].pc = "run_lp"
    /\ pr' = [pr EXCEPT ![t].pc = "lp", ![t].task = Load(pr[t].task, tasks[t])]
    /\ lp_calls' = [lp_calls EXCEPT ![t] = @ + 1]
    /\ req' = Forget(req)
    /\ UNCHANGED <<now, tasks, jobs, files, gdrive, dl, PRINTER_NAME,
                   add_job_calls, remove_job_calls, send_email_calls, direct>>

\* Variant of lp_result: the exit status of the lp command is not looked at.
lp_result_any_returncode(run, out) ==
    IF out.raised # NULL
    THEN [run EXCEPT !.pc = "commit_result", !.task.cur.status = FAILED,
                     !.task.cur.error_message = out.raised]
    ELSE [run EXCEPT !.pc = "commit_result", !.task.cur.status = COMPLETED]

\* Lines 199-208 and 211-215: what the result of the lp command makes of the
\* object.
lp_result(run, out) ==
    IF out.raised # NULL
    THEN [run EXCEPT !.pc = "commit_result", !.task.cur.status = FAILED,
                     !.task.cur.error_message = out.raised]
    ELSE IF out.returncode = 0
    THEN [run EXCEPT !.pc = "commit_result", !.task.cur.status = COMPLETED]
    ELSE [run EXCEPT !.pc = "commit_result", !.task.cur.status = FAILED,
                     !.task.cur.error_message = Or(out.stderr, Or(out.stdout, MSG_UNKNOWN_PRINT_ERROR))]

\* Lines 209 and 216: the lp command has ended, db.commit() of the result.
print_commit_result(t) ==
    /\ pr[t].pc = "lp"
    /\ \E out \in LpOutcomes :
         LET run == lp_result(pr[t], out)
         IN /\ Commit(t, run.task)
            /\ pr' = [pr EXCEPT ![t] = [run EXCEPT !.pc = "cleanup", !.task = Detached,
                                                   !.process = out]]
    /\ req' = Forget(req)
    /\ UNCHANGED <<now, jobs, files, gdrive, dl, PRINTER_NAME,
                   add_job_calls, remove_job_calls, send_email_calls, lp_calls, direct>>

\* Variant of cleanup_removes: whatever file was printed is removed.
cleanup_removes_any(run, disk) == os_path_exists(disk, run.file_to_print_path)

\* Line 218: whether the finally block removes the printed file.
cleanup_removes(run, disk) ==
    run.is_gdrive_downloaded_file /\ os_path_exists(disk, run.file_to_print_path)

\* Lines 217-226: the finally block removes the downloaded copy and sets
\* gdrive_download_path = None on the object; when os.remove raises, the file
\* and the object stay as they are; the session is closed.
print_cleanup(t) ==
    /\ pr[t].pc = "cleanup"
    /\ IF cleanup_removes(pr[t], files)
       THEN \/ /\ files' = os_remove(files, pr[t].file_to_print_path)
               /\ pr' = [pr EXCEPT ![t].pc = "commit_cleared",
                                   ![t].task.cur.gdrive_download_path = NULL]
            \/ /\ pr' = [pr EXCEPT ![t] = IdlePrint]
               /\ UNCHANGED files
       ELSE /\ pr' = [pr EXCEPT ![t] = IdlePrint]
            /\ UNCHANGED files
    /\ req' = Forget(req)
    /\ UNCHANGED <<now, tasks, jobs, gdrive, dl, PRINTER_NAME,
                   add_job_calls, remove_job_calls, send_email_calls, lp_calls, direct>>

\* Lines 223 and 226: db.commit() of the cleared path, db.close().
print_commit_cleared(t) ==
    /\ pr[t].pc = "commit_cleared"
    /\ Commit(t, pr[t].task)
    /\ pr' = [pr EXCEPT ![t] = IdlePrint]
    /\ req' = Forget(req)
    /\ UNCHANGED <<now, jobs, files, gdrive, dl, PRINTER_NAME,
                   add_job_calls, remove_job_calls, send_email_calls, lp_calls, direct>>

print_file_task(t) ==
    \/ print_query(t)
    \/ print_resolve(t)
    \/ print_exists(t)
    \/ print_commit_failed(t)
    \/ print_commit_printing(t)
    \/ print_run_lp(t)
    \/ print_commit_result(t)
    \/ print_cleanup(t)
    \/ print_commit_cleared(t)

\* ------------------------------------------------------ direct calls
\* The handlers are plain functions: a direct call (the tests make them) runs
\* one for a task id whether or not a job is pending for it.
call_prepare_gdrive_download_task(t) ==
    /\ direct < MaxDirect
    /\ dl[t].pc = "idle"
    /\ dl' = [dl EXCEPT ![t].pc = "start"]
    /\ direct' = direct + 1
    /\ req' = Forget(req)
    /\ UNCHANGED <<now, tasks, jobs, files, gdrive, pr, PRINTER_NAME,
                   add_job_calls, remove_job_calls, send_email_calls, lp_calls>>

call_print_file_task(t) ==
    /\ direct < MaxDirect
    /\ pr[t].pc = "idle"
    /\ pr' = [pr EXCEPT ![t].pc = "start"]
    /\ direct' = direct + 1
    /\ req' = Forget(req)
    /\ UNCHANGED <<now, tasks, jobs, files, gdrive, dl, PRINTER_NAME,
                   add_job_calls, remove_job_calls, send_email_calls, lp_calls>>

\* ------------------------------------------------------- the disk
\* The files of the tasks are plain files under uploads/: one may be gone by
\* the time a handler looks for it with os.path.exists (lines 153, 174, 218),
\* removed by whatever else works on the disk.
TaskFiles ==
    {tasks[t].file_identifier : t \in {u \in TaskIds : Exists(u) /\ tasks[u].storage_type = LOCAL_}}
        \cup {download_destination(t, tasks[t].original_filename) :
                 t \in {u \in TaskIds : Exists(u) /\ tasks[u].storage_type = GDRIVE_}}

file_lost ==
    /\ \E f \in files \cap TaskFiles : files' = os_remove(files, f)
    /\ req' = Forget(req)
    /\ UNCHANGED <<now, tasks, jobs, gdrive, dl, pr, PRINTER_NAME,
                   add_job_calls, remove_job_calls, send_email_calls, lp_calls, direct>>

\* No stored file has been lost: the next request names its file after the
\* files stored before it.
NothingLost == TaskFiles \cap files \cap LocalPaths = TaskFiles \cap LocalPaths

\* ------------------------------------------------------ specification
Init ==
    /\ now = 0
    /\ tasks = [t \in TaskIds |-> NoTask]
    /\ jobs = {}
    /\ files = {}
    /\ gdrive = {}
    /\ req = IdleReq
    /\ dl = [t \in TaskIds |-> IdleDownload]
    /\ pr = [t \in TaskIds |-> IdlePrint]
    /\ PRINTER_NAME \in PrinterNames
    /\ add_job_calls = [t \in TaskIds |-> <<>>]
    /\ remove_job_calls = [t \in TaskIds |-> <<>>]
    /\ send_email_calls = [t \in TaskIds |-> <<>>]
    /\ lp_calls = [t \in TaskIds |-> 0]
    /\ direct = 0

\* The service as it runs: requests, the clock, and jobs fired by the
\* scheduler, each once.
Next ==
    \/ add_task
    \/ Tick
    \/ \E t \in TaskIds : fire_download(t)
    \/ \E t \in TaskIds : fire_print(t)
    \/ \E t \in TaskIds : prepare_gdrive_download_task(t)
    \/ \E t \in TaskIds : print_file_task(t)

Spec == Init /\ [][Next]_vars

\* The handlers called as functions, any of them at any time and again, on
\* the tasks the endpoint has created; no job is fired.
NextDirect ==
    \/ add_task
    \/ \E t \in TaskIds : call_prepare_gdrive_download_task(t)
    \/ \E t \in TaskIds : call_print_file_task(t)
    \/ \E t \in TaskIds : prepare_gdrive_download_task(t)
    \/ \E t \in TaskIds : print_file_task(t)

SpecDirect == Init /\ [][NextDirect]_vars

\* The two endpoints as the clock goes on: tasks are added and listed.
NextList ==
    \/ add_task
    \/ list_tasks
    \/ Tick

SpecList == Init /\ [][NextList]_vars

\* The service on a disk that loses files: the requests come first, before
\* the clock moves and while every stored file is there; then the clock, the
\* jobs fired by the scheduler, and the loss of a task's file.
NextLoss ==
    \/ now = 0 /\ NothingLost /\ add_task
    \/ Tick
    \/ file_lost
    \/ \E t \in TaskIds : fire_download(t)
    \/ \E t \in TaskIds : fire_print(t)
    \/ \E t \in TaskIds : prepare_gdrive_download_task(t)
    \/ \E t \in TaskIds : print_file_task(t)

SpecLoss == Init /\ [][NextLoss]_vars

\* The service with its scheduling: the requests come first, before the clock
\* moves; the clock goes on to the run date of every pending job, the
\* scheduler fires every due job, and a handler that has started takes its
\* next step (a worker thread runs it, and every call it makes returns).
NextLive ==
    \/ now = 0 /\ add_task
    \/ Tick
    \/ \E t \in TaskIds : fire_download(t)
    \/ \E t \in TaskIds : fire_print(t)
    \/ \E t \in TaskIds : prepare_gdrive_download_task(t)
    \/ \E t \in TaskIds : print_file_task(t)

Fairness ==
    /\ WF_vars(Tick)
    /\ \A t \in TaskIds :
          /\ WF_vars(fire_download(t))
          /\ WF_vars(fire_print(t))
          /\ WF_vars(prepare_gdrive_download_task(t))
          /\ WF_vars(print_file_task(t))

SpecLive == Init /\ [][NextLive]_vars /\ Fairness

\* ---------------------------------------------------------- properties
PrintJobs(t) == Pending(print_job_id(t))
DownloadJobs(t) == Pending(download_job_id(t))

\* The steps of add_task: the only steps that leave a returned request.
Returned(r) == r.pc = "returned"
Accepted(r) == Returned(r) /\ r.status_code = 200

\* C1: under every interleaving of the two handlers of a task, once the
\* persisted status of the task is FAILED no later step changes it to another
\* value, a download handler that read the task earlier and ends later
\* included.
C1_FailedStaysFailed ==
    [][\A t \in TaskIds :
          (Exists(t) /\ tasks[t].status = FAILED) => tasks'[t].status = FAILED]_vars

\* C2: a run of the print handler on a task whose persisted status is already
\* COMPLETED or FAILED does nothing: no step of it changes status,
\* error_message or gdrive_download_path of the row, and none runs the lp
\* command.
C2_PrintOfFinishedTaskIsNoOp ==
    [][\A t \in TaskIds :
          LET finished == {COMPLETED, FAILED}
              of_finished == \/ pr[t].pc = "start" /\ Exists(t) /\ tasks[t].status \in finished
                             \/ pr[t].status_at_query \in finished
          IN (of_finished /\ pr'[t] # pr[t]) =>
                 /\ tasks'[t] = tasks[t]
                 /\ lp_calls'[t] = lp_calls[t]]_vars

\* C3: a run of the print handler whose query finds the persisted status
\* DOWNLOADING puts FAILED and a non-empty error message on the object, and
\* its next and last step commits them; the run never runs the lp command and
\* never sets PRINTING.
C3_PrintWhileDownloadingFails ==
    [][\A t \in TaskIds :
          /\ (pr[t].pc = "start" /\ pr'[t] # pr[t] /\ Exists(t) /\ tasks[t].status = DOWNLOADING)
                 => /\ pr'[t].status_at_query = DOWNLOADING
                    /\ pr'[t].pc = "commit_failed"
                    /\ pr'[t].task.cur.status = FAILED
                    /\ pr'[t].task.cur.error_message \notin {NULL, NO_VALUE, ""}
                    /\ lp_calls'[t] = lp_calls[t]
          /\ (pr[t].status_at_query = DOWNLOADING /\ pr'[t] # pr[t])
                 => /\ pr'[t] = IdlePrint
                    /\ tasks'[t].status = FAILED
                    /\ tasks'[t].error_message \notin {NULL, NO_VALUE, ""}
                    /\ lp_calls'[t] = lp_calls[t]]_vars

\* A print run that found DOWNLOADING has ended: the row holds FAILED and the
\* message of that guard, and lp was never run for the task.
C3_Witness ==
    \E t \in TaskIds :
        /\ pr[t] = IdlePrint
        /\ tasks[t].status = FAILED
        /\ tasks[t].error_message = MSG_STILL_DOWNLOADING
        /\ lp_calls[t] = 0

\* C4: when the download handler of a GDrive task found status SCHEDULED and
\* the download failed, then as the handler returns the persisted status is
\* FAILED, error_message is the text of the download error, send_email has
\* been called exactly once, to the task's uploader_email, and remove_job
\* exactly once, with print_task_<id>.
C4_DownloadFailureIsReported ==
    [][\A t \in TaskIds :
          (/\ dl[t].pc = "commit" /\ dl[t].e # NULL
           /\ dl[t].status_at_query = SCHEDULED
           /\ dl'[t] # dl[t])
              => /\ dl'[t] = IdleDownload
                 /\ tasks'[t].storage_type = GDRIVE_
                 /\ tasks'[t].status = FAILED
                 /\ tasks'[t].error_message = dl[t].e
                 /\ send_email_calls'[t] = <<[to |-> tasks[t].uploader_email, e |-> dl[t].e]>>
                 /\ remove_job_calls'[t] = <<print_job_id(t)>>]_vars

\* The download handler has returned from a failed download.
C4_Witness ==
    \E t \in TaskIds :
        /\ dl[t] = IdleDownload
        /\ tasks[t].status = FAILED
        /\ tasks[t].error_message \in DownloadErrors
        /\ Len(send_email_calls[t]) = 1
        /\ remove_job_calls[t] = <<print_job_id(t)>>

\* C5: the lp command is never run for a task whose download has failed,
\* whatever the interleaving: not when the print job fires while the download
\* handler is in its except branch, FAILED not yet committed, and not when
\* remove_job comes too late to keep the print job from firing.
DownloadHasFailed(t) == dl[t].e # NULL \/ send_email_calls[t] # <<>>

C5_NoPrintAfterFailedDownload ==
    \A t \in TaskIds : DownloadHasFailed(t) => lp_calls[t] = 0

\* The print handler runs, past its query, while the download handler is in
\* its except branch after a remove_job that found the print job fired, the
\* row not yet FAILED.
C5_Witness ==
    \E t \in TaskIds :
        /\ dl[t].pc = "commit" /\ dl[t].e # NULL
        /\ remove_job_calls[t] # <<>>
        /\ tasks[t].status # FAILED
        /\ pr[t].pc \notin {"idle", "start"}

\* C6: in every reachable state every task that exists has exactly one
\* pending print job print_task_<id> and at most one pending download job
\* download_task_<id>, the latter only if the task is a GDrive task.
C6_ExactlyOnePrintJob ==
    \A t \in TaskIds :
        Exists(t) =>
            /\ Cardinality(PrintJobs(t)) = 1
            /\ Cardinality(DownloadJobs(t)) <= 1
            /\ (DownloadJobs(t) # {} => tasks[t].storage_type = GDRIVE_)

\* C6, amended: every task that exists has at most one pending print job and
\* at most one pending download job, the latter only if it is a GDrive task;
\* the print job is there when the task is created, and it goes only when the
\* scheduler fires it or the download handler removes it.
C6_AtMostOneJobOfEachKind ==
    \A t \in TaskIds :
        Exists(t) =>
            /\ Cardinality(PrintJobs(t)) <= 1
            /\ Cardinality(DownloadJobs(t)) <= 1
            /\ (DownloadJobs(t) # {} => tasks[t].storage_type = GDRIVE_)

C6_PrintJobUntilFiredOrRemoved ==
    \A t \in TaskIds :
        /\ (~Exists(t) /\ tasks'[t] # NoTask)
               => Cardinality({j \in jobs' : j.id = print_job_id(t)}) = 1
        /\ (Exists(t) /\ PrintJobs(t) # {} /\ {j \in jobs' : j.id = print_job_id(t)} = {})
               => \/ pr[t].pc = "idle" /\ pr'[t].pc = "start"
                  \/ remove_job_calls'[t] = Append(remove_job_calls[t], print_job_id(t))

C6_OnePrintJobUntilFiredOrRemoved ==
    []C6_AtMostOneJobOfEachKind /\ [][C6_PrintJobUntilFiredOrRemoved]_vars

\* The download handler has removed the print job of a task: the task is
\* there, and no print job is pending for it.
C6_Witness ==
    \E t \in TaskIds :
        /\ Exists(t)
        /\ remove_job_calls[t] = <<print_job_id(t)>>
        /\ PrintJobs(t) = {}
        /\ pr[t] = IdlePrint
        /\ lp_calls[t] = 0

\* C7: an accepted request whose file is of at most MAX_FILE_SIZE_BYTES (the
\* size equal to it included) creates a task with storage type LOCAL and
\* status SCHEDULED, and registers exactly one job for it, print_task_<id> at
\* the requested print time; nothing is uploaded to Google Drive.
C7_SmallFileIsLocal ==
    [][(Accepted(req') /\ req'.form.file_size <= MAX_FILE_SIZE_BYTES) =>
          LET t == req'.task_id
              print_job == [id |-> print_job_id(t), run_date |-> req'.form.stamp.ts]
          IN /\ ~Exists(t)
             /\ tasks'[t].storage_type = LOCAL_
             /\ tasks'[t].status = SCHEDULED
             /\ tasks'[t].file_identifier \in files'
             /\ add_job_calls'[t] = <<print_job>>
             /\ jobs' = jobs \cup {print_job}
             /\ gdrive' = gdrive
             /\ ~req'.uploaded]_vars

\* A request with a file of exactly the threshold size has been accepted.
C7_Witness ==
    /\ Accepted(req)
    /\ req.form.file_size = MAX_FILE_SIZE_BYTES
    /\ tasks[req.task_id].storage_type = LOCAL_
    /\ PrintJobs(req.task_id) # {}

\* C8: an accepted request whose file is larger than MAX_FILE_SIZE_BYTES,
\* Google Drive being available, creates a task with storage type GDRIVE whose
\* file_identifier is the id the upload returned, and registers exactly two
\* jobs: first download_task_<id>, then print_task_<id> at the requested
\* print time.
C8_LargeFileIsRemote ==
    [][(/\ Accepted(req')
        /\ req'.form.file_size > MAX_FILE_SIZE_BYTES
        /\ req'.form.gdrive_service_available) =>
          LET t == req'.task_id
          IN /\ ~Exists(t)
             /\ tasks'[t].storage_type = GDRIVE_
             /\ req'.uploaded
             /\ gdrive' \ gdrive = {tasks'[t].file_identifier}
             /\ Len(add_job_calls'[t]) = 2
             /\ add_job_calls'[t][1].id = download_job_id(t)
             /\ add_job_calls'[t][2] = [id |-> print_job_id(t), run_date |-> req'.form.stamp.ts]
             /\ {j.id : j \in jobs' \ jobs} = {download_job_id(t), print_job_id(t)}]_vars

\* A request with a file over the threshold has been accepted.
C8_Witness ==
    /\ Accepted(req)
    /\ req.form.file_size > MAX_FILE_SIZE_BYTES
    /\ tasks[req.task_id].storage_type = GDRIVE_
    /\ tasks[req.task_id].file_identifier \in gdrive
    /\ DownloadJobs(req.task_id) # {}

\* C9: a request whose print time is not more than one minute after the clock
\* at validation is rejected with status 400; the tasks table and the job
\* store are after the request what they were before it.
C9_NearPrintTimeIsRejected ==
    [][(/\ Returned(req')
        /\ req'.form.stamp.parse = TS_OK
        /\ req'.form.stamp.ts - req'.clock <= 60) =>
          /\ req'.status_code = 400
          /\ tasks' = tasks
          /\ jobs' = jobs
          /\ add_job_calls' = add_job_calls]_vars

\* A request for a print time exactly one minute ahead has been rejected.
C9_Witness ==
    /\ Returned(req)
    /\ req.form.stamp.parse = TS_OK
    /\ req.form.stamp.ts = req.clock + 60
    /\ req.status_code = 400

\* C10: a request whose file is larger than MAX_FILE_SIZE_BYTES, Google Drive
\* not being available, is rejected: no task is created, no job is
\* registered, no file is added to the permanent local storage, and the
\* staged copy is gone.
C10_LargeFileWithoutDriveIsRejected ==
    [][(/\ Returned(req')
        /\ req'.form.file_size > MAX_FILE_SIZE_BYTES
        /\ ~req'.form.gdrive_service_available) =>
          /\ req'.status_code # 200
          /\ tasks' = tasks
          /\ jobs' = jobs
          /\ add_job_calls' = add_job_calls
          /\ files' \cap LocalPaths = files \cap LocalPaths
          /\ files' \cap TempPaths = {}
          /\ gdrive' = gdrive]_vars

\* A request with a large file has been turned down for want of Google Drive.
C10_Witness ==
    /\ Returned(req)
    /\ req.form.file_size > MAX_FILE_SIZE_BYTES
    /\ ~req.form.gdrive_service_available
    /\ req.status_code = 500
    /\ req.task_id = 0

\* C11: a request that ends without creating a task (Google Drive not
\* available, upload failed, print time out of range, print time too near)
\* leaves no file of its own on the local disk: neither the staged copy nor a
\* file in the permanent local storage.
C11_RejectedRequestLeavesNoFile ==
    [][(Returned(req') /\ req'.status_code # 200) => files' \subseteq files]_vars

\* C12: the print handler of a LOCAL task that it found SCHEDULED, with the
\* file on disk and an lp command that exits with status 0, ends with the
\* persisted status COMPLETED; and no step of the print handler, on any of its
\* paths, removes the file a LOCAL task's file_identifier names.
C12_LocalPrintCompletesAndKeepsFile ==
    [][\A t \in TaskIds :
          (Exists(t) /\ tasks[t].storage_type = LOCAL_ /\ pr'[t] # pr[t]) =>
              /\ (/\ pr[t].pc = "lp"
                  /\ pr[t].status_at_query = SCHEDULED
                  /\ pr'[t].process.raised = NULL
                  /\ pr'[t].process.returncode = 0)
                     => tasks'[t].status = COMPLETED
              /\ (pr[t].pc = "cleanup" /\ tasks[t].status = COMPLETED)
                     => pr'[t] = IdlePrint /\ tasks'[t] = tasks[t]
              /\ tasks[t].file_identifier \in files
                     => tasks[t].file_identifier \in files']_vars

\* The print handler of a LOCAL task has returned from a successful lp
\* command: the task is COMPLETED and its file is still there.
C12_Witness ==
    \E t \in TaskIds :
        /\ Exists(t)
        /\ tasks[t].storage_type = LOCAL_
        /\ tasks[t].status = COMPLETED
        /\ pr[t] = IdlePrint
        /\ lp_calls[t] = 1
        /\ tasks[t].file_identifier \in files

\* C13: a run of the print handler that resolved the downloaded copy of a
\* GDrive task and reached the lp command leaves, as it returns, no downloaded
\* copy on disk and gdrive_download_path NULL in the row, whether lp exited
\* with 0, exited with another status or raised.
PrintReturns(t) == pr[t].pc \in {"cleanup", "commit_cleared"} /\ pr'[t] = IdlePrint

C13_StagedCopyIsAlwaysCleared ==
    [][\A t \in TaskIds :
          (PrintReturns(t) /\ pr[t].is_gdrive_downloaded_file) =>
              /\ pr[t].file_to_print_path \notin files'
              /\ tasks'[t].gdrive_download_path = NULL]_vars

\* C13, amended: such a run removes the downloaded copy and, the removal done,
\* returns with no downloaded copy on disk, gdrive_download_path NULL in the
\* row and the status COMPLETED or FAILED that the lp command gave; when the
\* removal raises, the run returns with the file and the row as they were.
C13_StagedCopyIsClearedWhenRemoved ==
    [][\A t \in TaskIds :
          (pr[t].is_gdrive_downloaded_file /\ pr'[t] # pr[t]) =>
              /\ pr[t].pc = "cleanup" =>
                    \/ /\ pr'[t].pc = "commit_cleared"
                       /\ pr[t].file_to_print_path \in files
                       /\ pr[t].file_to_print_path \notin files'
                    \/ /\ pr'[t] = IdlePrint
                       /\ files' = files
                       /\ tasks' = tasks
              /\ pr[t].pc = "commit_cleared" =>
                    /\ pr'[t] = IdlePrint
                    /\ pr[t].file_to_print_path \notin files'
                    /\ tasks'[t].gdrive_download_path = NULL
                    /\ tasks'[t].status = tasks[t].status
                    /\ tasks'[t].status = (IF pr[t].process.raised = NULL /\ pr[t].process.returncode = 0
                                           THEN COMPLETED ELSE FAILED)]_vars

\* The print handler of a GDrive task has printed the downloaded copy,
\* removed it and returned.
C13_Witness ==
    \E t \in TaskIds :
        /\ Exists(t)
        /\ tasks[t].storage_type = GDRIVE_
        /\ pr[t] = IdlePrint
        /\ lp_calls[t] = 1
        /\ tasks[t].status \in {COMPLETED, FAILED}
        /\ tasks[t].gdrive_download_path = NULL
        /\ download_destination(t, tasks[t].original_filename) \notin files

\* C14: in every reachable state the gdrive_download_path of a row is other
\* than NULL only if the task is a GDrive task and a download for it has ended
\* successfully before: the path gets a value only as a download handler
\* whose download_from_gdrive call returned commits.
C14_PathOnlyAfterDownload ==
    /\ [](\A t \in TaskIds :
             (Exists(t) /\ tasks[t].gdrive_download_path # NULL)
                 => tasks[t].storage_type = GDRIVE_)
    /\ [][\A t \in TaskIds :
             (/\ tasks'[t] # NoTask
              /\ tasks'[t].gdrive_download_path # NULL
              /\ (~Exists(t) \/ tasks[t].gdrive_download_path = NULL))
                 => /\ Exists(t)
                    /\ dl[t].pc = "commit" /\ dl[t].e = NULL
                    /\ dl'[t] = IdleDownload
                    /\ send_email_calls[t] = <<>>
                    /\ download_destination(t, tasks[t].original_filename)
                           = tasks'[t].gdrive_download_path]_vars

\* The download handler of a GDrive task has returned and the row names the
\* downloaded copy.
C14_Witness ==
    \E t \in TaskIds :
        /\ Exists(t)
        /\ tasks[t].storage_type = GDRIVE_
        /\ tasks[t].gdrive_download_path # NULL
        /\ dl[t] = IdleDownload

\* C15: in every reachable state a row whose status is FAILED has an
\* error_message other than NULL, and an error_message that is not NULL never
\* becomes NULL again, whatever handlers run, in whatever order and overlap.
C15_FailedHasMessageNeverCleared ==
    /\ [](\A t \in TaskIds :
             (Exists(t) /\ tasks[t].status = FAILED) => tasks[t].error_message # NULL)
    /\ [][\A t \in TaskIds :
             (Exists(t) /\ tasks[t].error_message # NULL)
                 => tasks'[t].error_message # NULL]_vars

\* A handler has written over the row of a task that had failed: the status
\* is no longer FAILED, and the message is still there.
C15_Witness ==
    \E t \in TaskIds :
        /\ Exists(t)
        /\ tasks[t].status \notin {FAILED, NULL}
        /\ tasks[t].error_message # NULL

\* C16: for every GDrive task a request creates, the run date registered for
\* its download job is strictly earlier than the run date registered for its
\* print job; it is the print time less 10 minutes, unless that is at or
\* before the clock read at registration, and then it is that clock plus 5
\* seconds.
C16_DownloadBeforePrint ==
    [][(Accepted(req') /\ req'.storage = GDRIVE_) =>
          LET t == req'.task_id
              download_job == CHOOSE j \in jobs' : j.id = download_job_id(t)
              print_job == CHOOSE j \in jobs' : j.id = print_job_id(t)
              print_time == req'.form.stamp.ts
          IN /\ Cardinality({j \in jobs' : j.id \in {download_job_id(t), print_job_id(t)}}) = 2
             /\ add_job_calls'[t] = <<download_job, print_job>>
             /\ print_job.run_date = print_time
             /\ download_job.run_date < print_job.run_date
             /\ download_job.run_date =
                    (IF print_time - 600 <= req'.clock THEN req'.clock + 5
                     ELSE print_time - 600)]_vars

\* A GDrive task has been created for a print time exactly 10 minutes ahead:
\* its download job is set 5 seconds ahead.
C16_Witness ==
    /\ Accepted(req)
    /\ req.storage = GDRIVE_
    /\ req.form.stamp.ts = req.clock + 600
    /\ [id |-> download_job_id(req.task_id), run_date |-> req.clock + 5] \in jobs

\* C17: with every registered job fired at most once, in any order and with
\* any overlap, every change of the persisted status of a task follows the
\* state machine: DOWNLOADING is entered from SCHEDULED only, PRINTING from
\* SCHEDULED only, COMPLETED from PRINTING only, and the status of a COMPLETED
\* task does not change again.
C17_StatusFollowsStateMachine ==
    [][\A t \in TaskIds :
          (Exists(t) /\ tasks'[t].status # tasks[t].status) =>
              /\ tasks'[t].status = DOWNLOADING => tasks[t].status = SCHEDULED
              /\ tasks'[t].status = PRINTING => tasks[t].status = SCHEDULED
              /\ tasks'[t].status = COMPLETED => tasks[t].status = PRINTING
              /\ tasks[t].status # COMPLETED]_vars

\* C18: when the lp command exits with a status other than 0, or the call of
\* it raises, the print handler commits FAILED with the diagnostic text as
\* error_message, and returns with them: stderr if it is not empty, else
\* stdout if it is not empty, else a generic message; the text of the
\* exception when the call raised.
SinkFailed(process) == process.raised # NULL \/ process.returncode # 0

DiagnosticText(process) ==
    IF process.raised # NULL THEN process.raised
    ELSE IF process.stderr # "" THEN process.stderr
    ELSE IF process.stdout # "" THEN process.stdout
    ELSE "Unknown printing error"

C19_ListIsNewestFirst ==
    req.pc = "listed" =>
        \A i, j \in 1..Len(req.page) : i < j => req.page[i] > req.page[j]

\* C20: when the download handler of a GDrive task found status SCHEDULED and
\* the download succeeds, the persisted status is DOWNLOADING all through the
\* download_from_gdrive call, and as the handler returns the status is
\* SCHEDULED, gdrive_download_path is uploads/gdrive_downloads/task_<id>_<name>,
\* no mail has been sent and the print job has not been removed.
InDownloadCall(t) == dl[t].pc = "downloading" /\ dl[t].status_at_query = SCHEDULED

DownloadReturnsWell(t) ==
    /\ dl[t].pc = "commit" /\ dl[t].e = NULL
    /\ dl[t].status_at_query = SCHEDULED
    /\ dl'[t] # dl[t]

AfterGoodDownload(t) ==
    /\ dl'[t] = IdleDownload
    /\ tasks'[t].status = SCHEDULED
    /\ ("uploads/gdrive_downloads/task_" \o ToString(t) \o "_" \o tasks[t].original_filename)
           = tasks'[t].gdrive_download_path
    /\ ("uploads/gdrive_downloads/task_" \o ToString(t) \o "_" \o tasks[t].original_filename) \in files'
    /\ send_email_calls'[t] = <<>>
    /\ remove_job_calls'[t] = <<>>
    /\ jobs' = jobs

C20_DownloadingAllThroughTheCall ==
    /\ [](\A t \in TaskIds : InDownloadCall(t) => tasks[t].status = DOWNLOADING)
    /\ [][\A t \in TaskIds : DownloadReturnsWell(t) => AfterGoodDownload(t)]_vars

\* C20, amended: the persisted status is DOWNLOADING all through the call as
\* long as the print job of the task has not fired; once the print handler
\* has run it may be FAILED instead.  What holds as the handler returns is
\* as stated.
C20_DownloadingUntilPrintFires ==
    /\ [](\A t \in TaskIds :
             InDownloadCall(t) =>
                 /\ tasks[t].status \in {DOWNLOADING, FAILED}
                 /\ (PrintJobs(t) # {} => tasks[t].status = DOWNLOADING))
    /\ [][\A t \in TaskIds : DownloadReturnsWell(t) => AfterGoodDownload(t)]_vars

\* The download handler has returned from a good download before the print
\* job fired: the task is SCHEDULED again and the row names the copy.
C20_Witness ==
    \E t \in TaskIds :
        /\ Exists(t)
        /\ dl[t] = IdleDownload
        /\ PrintJobs(t) # {}
        /\ tasks[t].status = SCHEDULED
        /\ download_destination(t, tasks[t].original_filename) = tasks[t].gdrive_download_path
        /\ download_destination(t, tasks[t].original_filename) \in files
        /\ send_email_calls[t] = <<>>

\* C21: a run of the download handler that starts for a task id with no row,
\* or with a row whose status is FAILED, or with a row whose storage type is
\* not GDRIVE, returns at its first step with nothing done: the tasks table,
\* the disk, the job store and the calls of send_email and remove_job are what
\* they were, and the download was not started.
DownloadStartsInVain(t) ==
    /\ dl[t].pc = "start"
    /\ dl'[t] # dl[t]
    /\ IF Exists(t)
       THEN tasks[t].status = FAILED \/ tasks[t].storage_type # GDRIVE_
       ELSE TRUE

C21_DownloadGuardsAreNoOps ==
    [][\A t \in TaskIds :
          DownloadStartsInVain(t) =>
              /\ dl'[t] = IdleDownload
              /\ tasks' = tasks
              /\ files' = files
              /\ gdrive' = gdrive
              /\ jobs' = jobs
              /\ send_email_calls' = send_email_calls
              /\ remove_job_calls' = remove_job_calls]_vars

\* The download handler has been called for a GDrive task whose row is FAILED,
\* and for the other task id, which has no row.
C21_Witness ==
    \E t, u \in TaskIds :
        /\ dl[t].pc = "start"
        /\ Exists(t)
        /\ tasks[t].status = FAILED
        /\ tasks[t].storage_type = GDRIVE_
        /\ dl[u].pc = "start"
        /\ ~Exists(u)

\* C22: with no printer configured (PRINTER_NAME empty), a run of the print
\* handler that finds a row whose status is neither FAILED nor DOWNLOADING
\* puts FAILED and a non-empty error message on the object, commits them and
\* returns; no step of it runs the lp command or removes a file.
NoPrinter == PRINTER_NAME = ""

C22_NoPrinterFailsTheTask ==
    /\ [](NoPrinter => \A t \in TaskIds : lp_calls[t] = 0)
    /\ [][\A t \in TaskIds :
             (NoPrinter /\ pr'[t] # pr[t]) =>
                 /\ files' = files
                 /\ (/\ pr[t].pc = "start"
                     /\ Exists(t)
                     /\ tasks[t].status \notin {FAILED, DOWNLOADING})
                        => /\ pr'[t].pc = "commit_failed"
                           /\ pr'[t].task.cur.status = FAILED
                           /\ pr'[t].task.cur.error_message \notin {NULL, NO_VALUE, ""}
                 /\ pr[t].pc = "commit_failed"
                        => /\ pr'[t] = IdlePrint
                           /\ tasks'[t].status = FAILED
                           /\ tasks'[t].error_message \notin {NULL, NO_VALUE, ""}
                 /\ pr[t].pc \notin {"idle", "start", "commit_failed"} => FALSE]_vars

\* The print handler of a LOCAL task has returned for want of a printer: the
\* row is FAILED with the message of that guard, lp was not run and the file
\* of the task is still on the disk.
C22_Witness ==
    \E t \in TaskIds :
        /\ NoPrinter
        /\ pr[t] = IdlePrint
        /\ Exists(t)
        /\ tasks[t].storage_type = LOCAL_
        /\ tasks[t].status = FAILED
        /\ tasks[t].error_message = MSG_NO_PRINTER
        /\ lp_calls[t] = 0
        /\ tasks[t].file_identifier \in files

\* C23: the lp command is run only for a file that was on the disk when the
\* print handler looked for it.  A run for a GDrive task whose
\* gdrive_download_path is NULL or names a file that is not there, and a run
\* for a LOCAL task whose file_identifier names a file that is not there, puts
\* FAILED and a non-empty error message on the object, commits them and
\* returns: it never sets PRINTING and never runs the lp command.
PassesGuards(t) ==
    /\ pr[t].pc = "start"
    /\ Exists(t)
    /\ tasks[t].status \notin {FAILED, DOWNLOADING}
    /\ PRINTER_NAME # ""

FailsOnObject(t) ==
    /\ pr'[t].pc = "commit_failed"
    /\ pr'[t].task.cur.status = FAILED
    /\ pr'[t].task.cur.error_message \notin {NULL, NO_VALUE, ""}
    /\ lp_calls'[t] = lp_calls[t]
    /\ tasks'[t] = tasks[t]

C23_MissingFileIsNotPrinted ==
    [][\A t \in TaskIds :
          pr'[t] # pr[t] =>
              \* the copy of a GDrive task: no path, or no file at the path
              /\ (/\ PassesGuards(t)
                  /\ tasks[t].storage_type = GDRIVE_
                  /\ tasks[t].gdrive_download_path = NULL) => FailsOnObject(t)
              /\ (/\ pr[t].pc = "resolve"
                  /\ pr[t].task.cur.gdrive_download_path \notin files) => FailsOnObject(t)
              \* the file of a LOCAL task
              /\ (/\ pr[t].pc = "exists"
                  /\ tasks[t].storage_type = LOCAL_
                  /\ tasks[t].file_identifier \notin files) => FailsOnObject(t)
              \* the failure is committed and the run is over
              /\ pr[t].pc = "commit_failed"
                     => /\ pr'[t] = IdlePrint
                        /\ tasks'[t].status = FAILED
                        /\ tasks'[t].error_message \notin {NULL, NO_VALUE, ""}
                        /\ lp_calls'[t] = lp_calls[t]
              \* PRINTING and the lp command: only past a file that was there
              /\ (pr'[t].pc = "commit_printing" \/ tasks'[t].status = PRINTING
                     \/ lp_calls'[t] # lp_calls[t])
                     => /\ pr[t].pc \in {"exists", "commit_printing", "run_lp"}
                        /\ pr[t].pc = "exists"
                               => /\ pr[t].file_to_print_path \in files
                                  /\ pr[t].file_to_print_path =
                                         (IF tasks[t].storage_type = LOCAL_
                                          THEN tasks[t].file_identifier
                                          ELSE pr[t].task.cur.gdrive_download_path)]_vars

\* The print handlers of a LOCAL task and of a GDrive task have returned, each
\* having found its file gone: the rows are FAILED with the messages of the
\* file checks, the downloaded copy still named by the row of the GDrive task,
\* and lp was run for neither.
C23_Witness ==
    \E t, u \in TaskIds :
        /\ Exists(t) /\ Exists(u)
        /\ pr[t] = IdlePrint /\ pr[u] = IdlePrint
        /\ tasks[t].storage_type = LOCAL_
        /\ tasks[t].file_identifier \notin files
        /\ tasks[t].status = FAILED
        /\ tasks[t].error_message = MSG_FILE_NOT_FOUND
        /\ tasks[u].storage_type = GDRIVE_
        /\ tasks[u].gdrive_download_path # NULL
        /\ tasks[u].gdrive_download_path \notin files
        /\ tasks[u].status = FAILED
        /\ tasks[u].error_message = MSG_GDRIVE_NOT_LOCAL
        /\ lp_calls[t] = 0 /\ lp_calls[u] = 0

\* C24: on the failure path of the download handler, FAILED and the error
\* text are in the row as the handler returns, whether send_email returned
\* True or False and whether remove_job found the print job or not (the job
\* already fired): a print job that is not there does not end the run, which
\* goes on to its commit.
OnFailurePath(t) == dl[t].e # NULL /\ dl'[t] # dl[t]

C24_FailureIsPersistedWhateverTheCalls ==
    [][\A t \in TaskIds :
          OnFailurePath(t) =>
              /\ dl[t].pc = "send_email"
                     => /\ dl'[t].pc = "remove_job"
                        /\ dl'[t].sent \in BOOLEAN
              /\ dl[t].pc = "remove_job"
                     => /\ dl'[t].pc = "commit"
                        /\ dl'[t].job_found = (PrintJobs(t) # {})
                        /\ {j \in jobs' : j.id = print_job_id(t)} = {}
                        /\ {j \in jobs' : j.id # print_job_id(t)}
                               = {j \in jobs : j.id # print_job_id(t)}
              /\ dl[t].pc = "commit"
                     => /\ dl'[t] = IdleDownload
                        /\ tasks'[t].status = FAILED
                        /\ tasks'[t].error_message = dl[t].e]_vars

\* The download handler is about to return from a failed download after a
\* send_email that returned False and a remove_job that found no print job,
\* the scheduler having fired it.
C24_Witness ==
    \E t \in TaskIds :
        /\ dl[t].pc = "commit"
        /\ dl[t].e # NULL
        /\ dl[t].sent = FALSE
        /\ dl[t].job_found = FALSE
        /\ remove_job_calls[t] = <<print_job_id(t)>>
        /\ pr[t].pc = "start"

\* C25: while the lp command runs for a task, the persisted status of the
\* task is PRINTING: PRINTING is in the row before the command is started, and
\* no step of another handler of the task changes the status of the row while
\* the command runs.
SinkInProgress(t) == pr[t].pc = "lp"

C25_PrintingWhileTheSinkRuns ==
    /\ [](\A t \in TaskIds : SinkInProgress(t) => tasks[t].status = PRINTING)
    /\ [][\A t \in TaskIds :
             /\ lp_calls'[t] # lp_calls[t]
                    => /\ pr[t].pc = "run_lp" /\ pr'[t].pc = "lp"
                       /\ tasks[t].status = PRINTING
                       /\ tasks'[t].status = PRINTING
             /\ (SinkInProgress(t) /\ pr'[t].pc = "lp")
                    => tasks'[t].status = tasks[t].status]_vars

\* The lp command runs for a GDrive task, whose download handler has run and
\* returned: the row holds PRINTING.
C25_Witness ==
    \E t \in TaskIds :
        /\ SinkInProgress(t)
        /\ lp_calls[t] = 1
        /\ tasks[t].storage_type = GDRIVE_
        /\ tasks[t].status = PRINTING
        /\ dl[t] = IdleDownload
        /\ DownloadJobs(t) = {}

\* C26: a step of a handler run for a task A, on whatever path, leaves every
\* other task B as it is: its row, its file on the disk, its pending jobs, its
\* own handler runs and the calls made for it.  The remove_job of A's download
\* failure takes print_task_<A> only, so the print job of B stays pending.
JobsOf(store, t) == {j \in store : j.id[2] = t}

FilesOf(disk, t) ==
    IF ~Exists(t) THEN {}
    ELSE IF tasks[t].storage_type = LOCAL_ THEN disk \cap {tasks[t].file_identifier}
    ELSE disk \cap {download_destination(t, tasks[t].original_filename)}

HandlerStep(t) == dl'[t] # dl[t] \/ pr'[t] # pr[t]

C26_HandlersLeaveOtherTasksAlone ==
    [][\A A, B \in TaskIds :
          (A # B /\ HandlerStep(A)) =>
              /\ tasks'[B] = tasks[B]
              /\ FilesOf(files', B) = FilesOf(files, B)
              /\ JobsOf(jobs', B) = JobsOf(jobs, B)
              /\ dl'[B] = dl[B] /\ pr'[B] = pr[B]
              /\ send_email_calls'[B] = send_email_calls[B]
              /\ remove_job_calls'[B] = remove_job_calls[B]
              /\ lp_calls'[B] = lp_calls[B]]_vars

\* The download handler of A has failed, removed the print job of A and
\* returned, and the print job of B, a task that is still to be printed, is
\* pending.
C26_Witness ==
    \E A, B \in TaskIds :
        /\ A # B
        /\ Exists(A) /\ Exists(B)
        /\ dl[A] = IdleDownload
        /\ tasks[A].status = FAILED
        /\ remove_job_calls[A] = <<print_job_id(A)>>
        /\ PrintJobs(A) = {}
        /\ tasks[B].status = SCHEDULED
        /\ PrintJobs(B) # {}
        /\ now < tasks[A].time_to_print

\* C27: with every pending job fired in the end and every call of a handler
\* returning, every task that is created comes to the persisted status
\* COMPLETED or FAILED and keeps it from then on, however the download handler
\* and the print handler of the task interleave.
Terminal(t) == tasks[t].status \in {COMPLETED, FAILED}

C27_EveryTaskEndsCompletedOrFailed ==
    \A t \in TaskIds : [](Exists(t) => <>[]Terminal(t))

\* C28: with every registered job fired at most once, the lp command is run
\* at most once for a task, from the creation of the task on.
C28_SinkAtMostOncePerTask ==
    \A t \in TaskIds : lp_calls[t] <= 1

\* The print job of a task has fired, its handler has run the lp command and
\* returned, and no job of the task is pending.
C28_Witness ==
    \E t \in TaskIds :
        /\ Exists(t)
        /\ lp_calls[t] = 1
        /\ pr[t] = IdlePrint
        /\ dl[t] = IdleDownload
        /\ PrintJobs(t) = {}
        /\ DownloadJobs(t) = {}
        /\ tasks[t].status \in {COMPLETED, FAILED}

\* C29: once a GDrive task has no pending job and no handler run left, both
\* of its jobs fired or removed and their handlers returned, no downloaded copy
\* of its file is on the local disk, whatever path the handlers took.
Quiescent(t) ==
    /\ Exists(t)
    /\ PrintJobs(t) = {} /\ DownloadJobs(t) = {}
    /\ dl[t] = IdleDownload /\ pr[t] = IdlePrint

C29_NoStagedCopyIsLeftBehind ==
    \A t \in TaskIds :
        (Quiescent(t) /\ tasks[t].storage_type = GDRIVE_)
            => download_destination(t, tasks[t].original_filename) \notin files

\* C30: every object in Google Drive that a request has uploaded is the
\* file_identifier of a task: no request is rejected after its upload and
\* leaves the object it uploaded behind without a task.
C30_EveryUploadHasItsTask ==
    \A g \in gdrive :
        \E t \in TaskIds :
            /\ Exists(t)
            /\ tasks[t].storage_type = GDRIVE_
            /\ tasks[t].file_identifier = g

\* C31: in every reachable state a row whose status is COMPLETED belongs to a
\* task for which the lp command has been run, and the status of a row becomes
\* COMPLETED only in the step in which the print handler of the task commits
\* the result of an lp command that exited with status 0.
SinkSucceeded(process) == process.raised = NULL /\ process.returncode = 0

C31_CompletedOnlyAfterASuccessfulSink ==
    /\ [](\A t \in TaskIds :
             (Exists(t) /\ tasks[t].status = COMPLETED) => lp_calls[t] >= 1)
    /\ [][\A t \in TaskIds :
             (/\ tasks'[t] # NoTask
              /\ tasks'[t].status = COMPLETED
              /\ (~Exists(t) \/ tasks[t].status # COMPLETED))
                 => /\ Exists(t)
                    /\ pr[t].pc = "lp"
                    /\ pr'[t].pc = "cleanup"
                    /\ lp_calls[t] >= 1
                    /\ SinkSucceeded(pr'[t].process)]_vars

\* The print handler has just committed COMPLETED for a task, on an lp command
\* that exited with status 0, and is about to clean up.
C31_Witness ==
    \E t \in TaskIds :
        /\ Exists(t)
        /\ tasks[t].status = COMPLETED
        /\ pr[t].pc = "cleanup"
        /\ pr[t].process.returncode = 0
        /\ pr[t].process.raised = NULL
        /\ lp_calls[t] = 1

\* C32: in the step in which the download handler calls send_email for a
\* failed download, and in the step in which it calls remove_job for the print
\* job, the persisted status of the task is FAILED already: FAILED is
\* committed before the two calls, not after them.
C32_FailedIsCommittedBeforeTheCalls ==
    [][\A t \in TaskIds :
          (\/ send_email_calls'[t] # send_email_calls[t]
           \/ remove_job_calls'[t] # remove_job_calls[t])
              => tasks[t].status = FAILED]_vars

\* C33: over a run of the service at most one mail is sent for a task; a mail
\* is sent for a task only by its download handler, in the except branch of a
\* download that failed, to the uploader and with the text of the error; no
\* step of the print handler sends a mail, on whatever path it ends.
C33_OneMailAndOnlyOnDownloadFailure ==
    /\ [](\A t \in TaskIds :
             /\ Len(send_email_calls[t]) <= 1
             /\ send_email_calls[t] # <<>>
                    => /\ Exists(t)
                       /\ tasks[t].storage_type = GDRIVE_
                       /\ send_email_calls[t][1].to = tasks[t].uploader_email
                       /\ send_email_calls[t][1].e \in DownloadErrors)
    /\ [][\A t \in TaskIds :
             /\ send_email_calls'[t] # send_email_calls[t]
                    => /\ dl[t].pc = "send_email" /\ dl[t].e \in DownloadErrors
                       /\ dl'[t].pc = "remove_job"
                       /\ pr'[t] = pr[t]
                       /\ send_email_calls'[t] =
                              <<[to |-> tasks[t].uploader_email, e |-> dl[t].e]>>
             /\ pr'[t] # pr[t] => send_email_calls' = send_email_calls]_vars

\* One mail has been sent for a GDrive task whose download failed, and none
\* for a LOCAL task that the print handler failed after an lp command that
\* did not succeed.
C33_Witness ==
    \E t, u \in TaskIds :
        /\ Exists(t) /\ Exists(u)
        /\ tasks[t].storage_type = GDRIVE_
        /\ tasks[t].status = FAILED
        /\ dl[t] = IdleDownload
        /\ Len(send_email_calls[t]) = 1
        /\ tasks[u].storage_type = LOCAL_
        /\ tasks[u].status = FAILED
        /\ lp_calls[u] = 1
        /\ pr[u] = IdlePrint
        /\ send_email_calls[u] = <<>>

====
